---- MODULE Spec2Model ----
(***************************************************************************)
(* Agent0: the goal-resolution and execution engine.                       *)
(*                                                                         *)
(*   Spec      the agent loop run_agent (agent/agent.py) over AgentState   *)
(*             (agent/state.py) and Memory (agent/memory.py)               *)
(*   FairSpec  the same loop with the progress a synchronous while loop    *)
(*             has (every blocking call returns)                           *)
(*   SpecGmail QueryGmail.run (tools/gmail.py)                             *)
(*   SpecDate  GoogleAgent._extract_parameters for query_events            *)
(*             (agents/google_agent.py)                                    *)
(*   SpecMail  GoogleAgent._extract_parameters for query_gmail             *)
(*   SpecSelect GoogleAgent._determine_tools                               *)
(*                                                                         *)
(* Texts are sequences of tokens: a literal piece of a format string is    *)
(* one token, an interpolated value is one token.  A text contains a       *)
(* value when the value is one of its tokens.                              *)
(***************************************************************************)
EXTENDS Integers, Sequences, FiniteSets, TLC

VARIABLES
    \* ---- run_agent: AgentState, Memory and the loop's position
    step, max_steps, done, history, results, items, ctx, pc,
    planner_calls, tool_runs, last,
    \* ---- QueryGmail.run: the call and what it returned
    gmail_call, gmail_result,
    \* ---- _extract_parameters(goal, "query_events"): inputs and params
    goal, now, query_parser, params,
    \* ---- _extract_parameters(goal, "query_gmail"): inputs and params
    mail_goal, mail_parser, mail_params,
    \* ---- _determine_tools(goal): inputs and the list returned
    task_goal, task_parser, tools_needed,
    \* ---- Memory on its own: its items, the last limit, the context built
    memory_items, context_limit, context, memory_op,
    \* ---- GoogleAgentToolkit.execute: the call and its outcome
    exec_call, exec_result,
    \* ---- ClaudePlanner: what the model answered in the latest iteration
    planner_response,
    \* ---- GoogleAgent.execute_task: the call, the history, what is returned
    task_call, task_history, task_return

agentVars == <<step, max_steps, done, history, results, items, ctx, pc,
               planner_calls, tool_runs, last>>
gmailVars == <<gmail_call, gmail_result>>
dateVars == <<goal, now, query_parser, params>>
mailVars == <<mail_goal, mail_parser, mail_params>>
selectVars == <<task_goal, task_parser, tools_needed>>
memVars == <<memory_items, context_limit, context, memory_op>>
execVars == <<exec_call, exec_result>>
planVars == <<planner_response>>
taskVars == <<task_call, task_history, task_return>>
vars == <<agentVars, gmailVars, dateVars, mailVars, selectVars, memVars, execVars, planVars, taskVars>>

None == "None"

(***************************************************************************)
(* Bounds                                                                  *)
(***************************************************************************)
\* largest max_steps tried, and the cap on step when max_steps is None
MaxSteps == 3

\* most messages a Gmail query matches, and the largest resultSizeEstimate
MaxMessages == 3
MaxEstimate == 7

\* most entries added to a memory used on its own
MaxMemory == 3

\* most words or phrases in a goal
MaxGoalLen == 3
\* the year the reference dates lie in; the reference dates are the first and
\* the last EdgeDays days of each of its months, and day MidDay of each
RefYear == 2024
EdgeDays == 3
MidDay == 15

(***************************************************************************)
(* agent/state.py                                                          *)
(***************************************************************************)
\* max_steps: int | None
NoLimit == [set |-> FALSE, n |-> 0]
Limit(n) == [set |-> TRUE, n |-> n]

IsCompleteOffByOne(d, s, ms) ==
    IF d THEN TRUE
    ELSE IF ms.set /\ s > ms.n THEN TRUE
    ELSE FALSE

\* AgentState.is_complete
IsComplete(d, s, ms) ==
    IF d THEN TRUE
    ELSE IF ms.set /\ s >= ms.n THEN TRUE
    ELSE FALSE

AddHistoryOverwriting(h, entry) == <<entry>>

\* AgentState.add_history
AddHistory(h, entry) == Append(h, entry)

AddResultTwice(r, result) == r \o <<result, result>>

\* AgentState.add_result
AddResult(r, result) == Append(r, result)

(***************************************************************************)
(* agent/memory.py                                                         *)
(***************************************************************************)
\* the default of max_items / n
MaxItemsDefault == 10

MemoryAddFront(its, text) == <<text>> \o its

\* Memory.add
MemoryAdd(its, text) == Append(its, text)

\* Python's its[-n:] for n >= 0: the last n entries, and all of them for n = 0
Recent(its, n) ==
    IF n = 0 \/ n >= Len(its) THEN its
    ELSE SubSeq(its, Len(its) - n + 1, Len(its))

RECURSIVE Join(_, _)
\* sep.join(texts)
Join(sep, texts) ==
    IF texts = <<>> THEN <<>>
    ELSE IF Len(texts) = 1 THEN texts[1]
    ELSE texts[1] \o <<sep>> \o Join(sep, Tail(texts))

\* Memory.build_context
BuildContext(its, max_items) == Join("\n", Recent(its, max_items))

\* text contains the value v
Contains(text, v) == \E i \in 1..Len(text) : text[i] = v

(***************************************************************************)
(* agent/agent.py: run_agent                                               *)
(***************************************************************************)
\* the tools mapping handed to run_agent (main.build_tools registers these)
Registered == {"noop", "query_gmail"}

\* names a planner may propose: registered ones, and MockPlanner.plan's
\* describe_state, which build_tools never registers
ProposalNames == Registered \cup {"describe_state"}

Reasons == {"default mock action"}

Warnings == {"Note: API reports 50 total results but only 5 were retrieved."}

\* what a tool's run may return: a dict (with or without a truthy "done", with
\* or without a discrepancy_warning), a non-dict object that has a get method,
\* or any other value (None, a string)
ToolResults ==
    [kind : {"dict"}, done : BOOLEAN, discrepancy_warning : Warnings \cup {None},
     error : {None}]
    \cup [kind : {"obj"}, done : BOOLEAN, discrepancy_warning : {None}, error : {None}]
    \cup [kind : {"other"}, done : {FALSE}, discrepancy_warning : {None}, error : {None}]

\* what a tool's run may raise: instances of Exception (get_gmail_service
\* raises FileNotFoundError), with str(exc); str(Exception()) is empty
ExceptionClasses == {"FileNotFoundError", "RuntimeError"}
ExceptionTexts == {"", "boom"}

CatchesFileNotFoundOnly(cls) == cls = "FileNotFoundError"

\* except Exception: every class a tool raises derives from Exception
Catches(cls) == cls \in {"Exception", "FileNotFoundError", "RuntimeError"}

ToolLookupDefaulting(name) == IF name \in Registered THEN name ELSE "noop"

\* tools.get(name)
ToolLookup(name) == IF name \in Registered THEN name ELSE None

\* the keys of the dict that except Exception builds
CaughtKeys == {"error"}

\* except Exception as exc: result = {"error": str(exc)}
CaughtResult(text) ==
    [kind |-> "dict", done |-> FALSE, discrepancy_warning |-> None, error |-> text]

\* f"Step {state.step}: planner proposed {name} ({reason})"
HistoryProposal(s, name, reason) ==
    <<"Step ", ToString(s), ": planner proposed ", name, " (", reason, ")">>

\* f"No tool named '{name}' registered. Skipping."
HistoryNoTool(name) == <<"No tool named '", name, "' registered. Skipping.">>

\* {"tool": name, "result": result}
ResultEntry(name, result) == [tool |-> name, result |-> result]

\* {result} inside an f-string: the repr of the whole value, one token (a
\* string inside it is quoted and escaped, so it is not the string's text)
Repr(result) == ToString(result)

\* isinstance(result, dict) and result.get("discrepancy_warning")
HasWarning(result) ==
    result.kind = "dict" /\ result.discrepancy_warning # None

MemoryEntryPlain(name, result) == <<"Tool ", name, " result: ", Repr(result)>>

\* memory_entry, with the banner and the warning text when the result has one
MemoryEntry(name, result) ==
    IF HasWarning(result)
    THEN <<"IMPORTANT DISCREPANCY", "\n", result.discrepancy_warning, "\n",
           "Tool ", name, " result: ", Repr(result)>>
    ELSE <<"Tool ", name, " result: ", Repr(result)>>

SignalsDoneNever(result) == FALSE

SignalsDoneAnyDict(result) == result.kind = "dict"

\* getattr(result, "get", None) and result.get("done")
SignalsDone(result) == result.kind \in {"dict", "obj"} /\ result.done

\* while not state.is_complete(): one more iteration is entered.  With
\* max_steps = None the model stops the run at MaxSteps iterations.
Enters ==
    /\ pc = "loop"
    /\ ~IsComplete(done, step, max_steps)
    /\ (~max_steps.set => step < MaxSteps)

\* lines 29-41: step += 1, build the context, ask the planner, log the proposal
Plan(name, reason) ==
    /\ step' = step + 1
    /\ ctx' = BuildContext(items, MaxItemsDefault)
    /\ planner_calls' = planner_calls + 1

\* lines 54-69: record the result, remember it, honour a "done" signal
Record(name, reason, result) ==
    /\ history' = AddHistory(history, HistoryProposal(step + 1, name, reason))
    /\ results' = AddResult(results, ResultEntry(name, result))
    /\ items' = MemoryAdd(items, MemoryEntry(name, result))
    /\ done' = IF SignalsDone(result) THEN TRUE ELSE done

\* an iteration whose proposed tool is not registered (lines 43-46)
Skip(name, reason) ==
    /\ Enters
    /\ ToolLookup(name) = None
    /\ Plan(name, reason)
    /\ history' = AddHistory(AddHistory(history, HistoryProposal(step + 1, name, reason)),
                             HistoryNoTool(name))
    /\ last' = [kind |-> "skip", name |-> name, text |-> None]
    /\ UNCHANGED <<max_steps, done, results, items, pc, tool_runs>>

\* such an iteration, for any proposal a planner may make
StepSkip == \E name \in ProposalNames, reason \in Reasons : Skip(name, reason)

\* an iteration whose tool returns
Run(name, reason, result) ==
    /\ Enters
    /\ ToolLookup(name) # None
    /\ Plan(name, reason)
    /\ tool_runs' = tool_runs + 1
    /\ Record(name, reason, result)
    /\ last' = [kind |-> "run", name |-> name, text |-> None]
    /\ UNCHANGED <<max_steps, pc>>

\* such an iteration, for any proposal and any value the tool may return
StepRun ==
    \E name \in ProposalNames, reason \in Reasons, result \in ToolResults :
        Run(name, reason, result)

\* an iteration whose tool raises
Raise(name, reason, cls, text) ==
    /\ Enters
    /\ ToolLookup(name) # None
    /\ Plan(name, reason)
    /\ tool_runs' = tool_runs + 1
    /\ last' = [kind |-> "raise", name |-> name, text |-> text]
    /\ IF Catches(cls)
       THEN /\ Record(name, reason, CaughtResult(text))
            /\ UNCHANGED <<max_steps, pc>>
       ELSE \* the exception leaves run_agent
            /\ history' = AddHistory(history, HistoryProposal(step + 1, name, reason))
            /\ pc' = "raised"
            /\ UNCHANGED <<max_steps, done, results, items>>

\* such an iteration, for any proposal and any exception the tool may raise
StepRaise ==
    \E name \in ProposalNames, reason \in Reasons,
       cls \in ExceptionClasses, text \in ExceptionTexts :
        Raise(name, reason, cls, text)

\* the loop condition fails: return state
Return ==
    /\ pc = "loop"
    /\ IsComplete(done, step, max_steps)
    /\ pc' = "returned"
    /\ UNCHANGED <<step, max_steps, done, history, results, items, ctx,
                   planner_calls, tool_runs, last>>

(***************************************************************************)
(* tools/gmail.py: QueryGmail.run                                          *)
(***************************************************************************)
\* an optional text: Python's None, or a str
PyNone == [null |-> TRUE, text |-> <<>>]
Str(t) == [null |-> FALSE, text |-> t]

\* max_results: int = 10, and the value an invalid max_results is reset to
DefaultMaxResults == 10
\* if max_results > 100: max_results = 100
MaxResultsCap == 100
\* maxResults=100 of one page of the count_all pagination
CountPageSize == 100

\* what the Gmail service does during one call: get_gmail_service may raise
\* FileNotFoundError, messages().list may raise; `matching` messages match
\* the query, resultSizeEstimate is `estimate`, and messages().get succeeds
\* for message i iff fetch_ok[i]
GmailCalls ==
    [service : {"ok", "no_credentials", "api_error"},
     count_all : BOOLEAN,
     count_only : BOOLEAN,
     max_results : (0..MaxMessages) \cup {MaxResultsCap + 1},
     matching : 0..MaxMessages,
     estimate : 0..MaxEstimate,
     fetch_ok : [1..MaxMessages -> BOOLEAN]]

Min(a, b) == IF a <= b THEN a ELSE b

\* lines 92-95: validate and constrain max_results
ConstrainMaxResults(max_results) ==
    IF max_results < 1 THEN DefaultMaxResults
    ELSE IF max_results > MaxResultsCap THEN MaxResultsCap
    ELSE max_results

RECURSIVE CountAllPages(_)
\* lines 47-64: page through the matching messages, CountPageSize at a time
CountAllPages(left) ==
    IF left <= CountPageSize THEN left
    ELSE CountPageSize + CountAllPages(left - CountPageSize)

RECURSIVE EmailSummaries(_, _)
\* lines 107-130: the summaries of the first n listed messages, skipping
\* every message whose metadata fetch raised
EmailSummaries(n, fetch_ok) ==
    IF n = 0 THEN <<>>
    ELSE IF fetch_ok[n] THEN Append(EmailSummaries(n - 1, fetch_ok), n)
    ELSE EmailSummaries(n - 1, fetch_ok)

DiscrepancyWarningAtDouble(returned, total) ==
    IF returned > 0 /\ total >= returned * 2
    THEN Str(<<"Note: API reports ", ToString(total),
               " total results but only ", ToString(returned), " were retrieved.">>)
    ELSE PyNone

\* lines 143-148
DiscrepancyWarning(returned, total) ==
    IF returned > 0 /\ total > returned * 2
    THEN Str(<<"Note: API reports ", ToString(total),
               " total results but only ", ToString(returned), " were retrieved.">>)
    ELSE PyNone

\* the keys a result dict does not have
NoGmailFields ==
    [ok |-> FALSE, path |-> None, count |-> -1, total_results |-> -1, returned |-> -1,
     discrepancy_warning |-> PyNone, emails |-> <<>>, error |-> PyNone]

\* QueryGmail.run(query, max_results, count_only, count_all)
QueryGmailRun(c) ==
    IF c.service = "no_credentials"
    THEN [NoGmailFields EXCEPT !.path = "error", !.error = Str(<<"credentials not found">>)]
    ELSE IF c.service = "api_error"
    THEN [NoGmailFields EXCEPT !.path = "error",
                               !.error = Str(<<"Gmail query failed: ", "HttpError">>)]
    ELSE IF c.count_all
    THEN [NoGmailFields EXCEPT !.ok = TRUE, !.path = "count_all",
                               !.count = CountAllPages(c.matching)]
    ELSE IF c.count_only
    THEN [NoGmailFields EXCEPT !.ok = TRUE, !.path = "count_only", !.count = c.estimate]
    ELSE LET listed == Min(c.matching, ConstrainMaxResults(c.max_results))
             emails == EmailSummaries(listed, c.fetch_ok)
             returned == Len(emails)
         IN [NoGmailFields EXCEPT !.ok = TRUE, !.path = "listing",
                                  !.total_results = c.estimate,
                                  !.returned = returned,
                                  !.discrepancy_warning =
                                      DiscrepancyWarning(returned, c.estimate),
                                  !.emails = emails]

\* one call of QueryGmail.run
GmailQuery ==
    /\ gmail_result.path = "not called"
    /\ gmail_result' = QueryGmailRun(gmail_call)
    /\ UNCHANGED gmail_call

\* any call against any behaviour of the service; not run yet
InitGmail ==
    /\ gmail_call \in GmailCalls
    /\ gmail_result = [NoGmailFields EXCEPT !.path = "not called"]

(***************************************************************************)
(* datetime: the proleptic Gregorian calendar as Python's date has it      *)
(***************************************************************************)
IsLeap(y) == y % 4 = 0 /\ (y % 100 # 0 \/ y % 400 = 0)

DaysInMonth(y, m) ==
    IF m = 2 THEN (IF IsLeap(y) THEN 29 ELSE 28)
    ELSE IF m \in {4, 6, 9, 11} THEN 30
    ELSE 31

\* the days of year y before the first of month m
DaysBeforeMonth(y, m) ==
    <<0, 31, 59, 90, 120, 151, 181, 212, 243, 273, 304, 334>>[m]
        + (IF m > 2 /\ IsLeap(y) THEN 1 ELSE 0)

DaysBeforeYear(y) ==
    (y - 1) * 365 + ((y - 1) \div 4) - ((y - 1) \div 100) + ((y - 1) \div 400)

\* date.toordinal(): 0001-01-01 is day 1
ToOrdinal(dt) == DaysBeforeYear(dt.y) + DaysBeforeMonth(dt.y, dt.m) + dt.d

\* date.fromordinal(n), which is what strftime('%Y-%m-%d') then prints
FromOrdinal(n) ==
    LET y0 == (n * 400) \div 146097 + 1
        y == IF n <= DaysBeforeYear(y0) THEN y0 - 1
             ELSE IF n > DaysBeforeYear(y0 + 1) THEN y0 + 1
             ELSE y0
        doy == n - DaysBeforeYear(y)
        m0 == (doy - 1) \div 31 + 1
        m == IF m0 < 12 /\ doy > DaysBeforeMonth(y, m0 + 1) THEN m0 + 1 ELSE m0
    IN [y |-> y, m |-> m, d |-> doy - DaysBeforeMonth(y, m)]

\* date.weekday(): Monday is 0
Weekday(dt) == (ToOrdinal(dt) + 6) % 7

\* dt + timedelta(days=n)
PlusDays(dt, n) == FromOrdinal(ToOrdinal(dt) + n)

NoDate == [y |-> 0, m |-> 0, d |-> 0]

(***************************************************************************)
(* agents/google_agent.py: GoogleAgent._extract_parameters, query_events   *)
(***************************************************************************)
\* A goal is a sequence of lower-case words and phrases, joined by spaces.
Vocabulary ==
    {"today", "next", "week", "third week", "5th week", "january", "dec"}

Goals == UNION {[1..n -> Vocabulary] : n \in 0..MaxGoalLen}

\* "today" in goal.lower(), "week" in goal.lower(), ...: the substring occurs
\* in one of the goal's words
HasSubstring(g, sub) ==
    \E i \in 1..Len(g) :
        \/ sub = "today" /\ g[i] = "today"
        \/ sub = "next" /\ g[i] = "next"
        \/ sub = "week" /\ g[i] \in {"week", "third week", "5th week"}

\* group(1) of (first|second|third|fourth|fifth|1st|2nd|3rd|4th|5th)\s+week
\* inside one phrase
OrdinalIn(w) ==
    IF w = "third week" THEN "third"
    ELSE IF w = "5th week" THEN "5th"
    ELSE None

\* group(1) of (january|...|december|jan|...|dec)\b inside one word
MonthIn(w) == IF w \in {"january", "dec"} THEN w ELSE None

\* re.search: group(1) of the leftmost match, None without a match
WeekMatch(g) ==
    IF \E i \in 1..Len(g) : OrdinalIn(g[i]) # None
    THEN OrdinalIn(g[CHOOSE i \in 1..Len(g) :
                        /\ OrdinalIn(g[i]) # None
                        /\ \A j \in 1..(i - 1) : OrdinalIn(g[j]) = None])
    ELSE None

MonthMatch(g) ==
    IF \E i \in 1..Len(g) : MonthIn(g[i]) # None
    THEN MonthIn(g[CHOOSE i \in 1..Len(g) :
                      /\ MonthIn(g[i]) # None
                      /\ \A j \in 1..(i - 1) : MonthIn(g[j]) = None])
    ELSE None

\* month_map.get(month_str.lower(), today.month)
MonthMap(month_str, today) ==
    CASE month_str \in {"january", "jan"} -> 1
      [] month_str \in {"february", "feb"} -> 2
      [] month_str \in {"march", "mar"} -> 3
      [] month_str \in {"april", "apr"} -> 4
      [] month_str = "may" -> 5
      [] month_str \in {"june", "jun"} -> 6
      [] month_str \in {"july", "jul"} -> 7
      [] month_str \in {"august", "aug"} -> 8
      [] month_str \in {"september", "sep"} -> 9
      [] month_str \in {"october", "oct"} -> 10
      [] month_str \in {"november", "nov"} -> 11
      [] month_str \in {"december", "dec"} -> 12
      [] OTHER -> today.m

\* week_map.get(week_str.lower(), 1)
WeekMap(week_str) ==
    CASE week_str \in {"first", "1st", "1"} -> 1
      [] week_str \in {"second", "2nd", "2"} -> 2
      [] week_str \in {"third", "3rd", "3"} -> 3
      [] week_str \in {"fourth", "4th", "4"} -> 4
      [] week_str \in {"fifth", "5th", "5"} -> 5
      [] OTHER -> 1

ResolveYearStrictlyLater(month_num, today) ==
    IF month_num > today.m THEN today.y ELSE today.y + 1

\* year = today.year if month_num >= today.month else today.year + 1
ResolveYear(month_num, today) ==
    IF month_num >= today.m THEN today.y ELSE today.y + 1

DaysUntilMondayNextWeek(first_of_month) == 7 - Weekday(first_of_month)

\* lines 330-332
DaysUntilMonday(first_of_month) ==
    LET days_until_monday == (7 - Weekday(first_of_month)) % 7
    IN IF days_until_monday = 0 /\ Weekday(first_of_month) # 0 THEN 7
       ELSE days_until_monday

\* lines 324-337: the Monday the requested week starts on
StartOfOrdinalWeek(month_num, week_num, today) ==
    LET first_of_month == [y |-> ResolveYear(month_num, today), m |-> month_num, d |-> 1]
        first_monday == PlusDays(first_of_month, DaysUntilMonday(first_of_month))
    IN PlusDays(first_monday, 7 * (week_num - 1))

MondayOfSundayStart(today) == PlusDays(today, 0 - ((Weekday(today) + 1) % 7))

\* today - timedelta(days=today.weekday())
MondayOf(today) == PlusDays(today, 0 - Weekday(today))

\* a params dict; has_range tells whether time_min and time_max are keys
ParamsOf(source, has_range, time_min, time_max) ==
    [source |-> source, calendar_id |-> "primary", has_range |-> has_range,
     time_min |-> time_min, time_max |-> time_max]

\* lines 270-351: the regex-based extraction for query_events
ExtractCalendarParams(g, today) ==
    IF HasSubstring(g, "today")
    THEN ParamsOf("regex", TRUE, today, PlusDays(today, 1))
    ELSE IF HasSubstring(g, "week")
    THEN IF MonthMatch(g) # None /\ WeekMatch(g) # None
         THEN LET start_of_week == StartOfOrdinalWeek(MonthMap(MonthMatch(g), today),
                                                      WeekMap(WeekMatch(g)), today)
              IN ParamsOf("regex", TRUE, start_of_week, PlusDays(start_of_week, 6))
         ELSE IF HasSubstring(g, "next")
         THEN LET start_of_week == PlusDays(MondayOf(today), 7)
              IN ParamsOf("regex", TRUE, start_of_week, PlusDays(start_of_week, 6))
         ELSE LET start_of_week == MondayOf(today)
              IN ParamsOf("regex", TRUE, start_of_week, PlusDays(start_of_week, 6))
    ELSE ParamsOf("regex", FALSE, NoDate, NoDate)

\* lines 219-231: with a query parser that answers, its params are returned
\* as they are; without one, or when it raises, the regexes decide
ExtractParameters(g, today, parser) ==
    IF parser = "answers" THEN ParamsOf("llm", FALSE, NoDate, NoDate)
    ELSE ExtractCalendarParams(g, today)

\* datetime.now(): days at either end and in the middle of every month of
\* RefYear
ReferenceDates ==
    {dt \in [y : {RefYear}, m : 1..12, d : 1..31] :
        /\ dt.d <= DaysInMonth(dt.y, dt.m)
        /\ \/ dt.d <= EdgeDays
           \/ dt.d > DaysInMonth(dt.y, dt.m) - EdgeDays
           \/ dt.d = MidDay}

\* self.query_parser is None, or raises, or answers
QueryParsers == {"none", "raises", "answers"}

\* one call _extract_parameters(goal, "query_events")
ExtractEventParams ==
    /\ params.source = "not called"
    /\ params' = ExtractParameters(goal, now, query_parser)
    /\ UNCHANGED <<goal, now, query_parser>>

\* any goal, on any reference date, with any query parser; nothing extracted yet
InitDate ==
    /\ goal \in Goals
    /\ now \in ReferenceDates
    /\ query_parser \in QueryParsers
    /\ params = ParamsOf("not called", FALSE, NoDate, NoDate)

(***************************************************************************)
(* GoogleAgent._extract_parameters for query_gmail                         *)
(* (agents/google_agent.py 215-267)                                        *)
(*                                                                         *)
(* A goal is a sequence of words separated by spaces.  The query built is  *)
(* a text whose tokens are the literal pieces the code concatenates        *)
(* ("from:", " in:inbox", " is:unread", with their leading space when the  *)
(* code writes one) and the address it interpolates.                       *)
(***************************************************************************)
\* str.lower() on a word
Lower(w) ==
    CASE w = "Unread" -> "unread"
      [] w = "Send" -> "send"
      [] w = "Query_Events" -> "query_events"
      [] OTHER -> w

\* the words of goals for query_gmail
MailVocabulary ==
    {"inbox", "sent", "draft", "unread", "Unread", "how many", "count",
     "total", "account", "alice@example.com", "bob@example.org",
     "alice@localhost"}

MailGoals == UNION {[1..n -> MailVocabulary] : n \in 0..MaxGoalLen}

\* the keywords of lines 238-266 that are substrings of a lower-case word
MailKeywordsIn(w) ==
    CASE w \in {"inbox", "sent", "draft", "unread", "how many", "count", "total"} -> {w}
      [] w = "account" -> {"count"}
      [] OTHER -> {}

\* sub in goal.lower()
MailHas(g, sub) == \E i \in 1..Len(g) : sub \in MailKeywordsIn(Lower(g[i]))

\* a match of email_pattern: local part, '@', domain, '.', two letters or more
IsEmailAddress(w) == w \in {"alice@example.com", "bob@example.org"}

\* re.findall(email_pattern, goal)
Emails(g) == SelectSeq(g, IsEmailAddress)

\* lines 237-245: the folder the goal names, inbox before sent before draft
FolderQuery(g) ==
    IF MailHas(g, "inbox") THEN <<"in:inbox">>
    ELSE IF MailHas(g, "sent") THEN <<"in:sent">>
    ELSE IF MailHas(g, "draft") THEN <<"in:draft">>
    ELSE <<>>

\* lines 247-254: the first address replaces the query built so far
SenderQuery(g, query) ==
    IF Emails(g) # <<>>
    THEN <<"from:", Emails(g)[1]>>
            \o (IF MailHas(g, "inbox") THEN <<" in:inbox">> ELSE <<>>)
    ELSE query

UnreadQueryReplacing(g, query) ==
    IF MailHas(g, "unread")
    THEN <<"is:unread">> \o (IF MailHas(g, "inbox") THEN <<" in:inbox">> ELSE <<>>)
    ELSE query

\* lines 256-263
UnreadQuery(g, query) ==
    IF MailHas(g, "unread")
    THEN (IF query # <<>> THEN query \o <<" is:unread">> ELSE <<"is:unread">>)
            \o (IF MailHas(g, "inbox") THEN <<" in:inbox">> ELSE <<>>)
    ELSE query

\* lines 265-267: the count_all key is set, to True, or it is absent
CountAll(g) == \E word \in {"how many", "count", "total"} : MailHas(g, word)

\* a params dict; count_all tells whether the key is there (it is True then)
MailParamsOf(source, query, count_all) ==
    [source |-> source, query |-> query, count_all |-> count_all]

\* lines 235-267: the regex-based extraction for query_gmail
ExtractGmailParams(g) ==
    MailParamsOf("regex", UnreadQuery(g, SenderQuery(g, FolderQuery(g))), CountAll(g))

\* lines 219-231: with a query parser that answers, its params are returned
\* as they are; without one, or when it raises, the regexes decide
ExtractMailParameters(g, parser) ==
    IF parser = "answers" THEN MailParamsOf("llm", <<>>, FALSE)
    ELSE ExtractGmailParams(g)

\* one call _extract_parameters(goal, "query_gmail")
ExtractMailParams ==
    /\ mail_params.source = "not called"
    /\ mail_params' = ExtractMailParameters(mail_goal, mail_parser)
    /\ UNCHANGED <<mail_goal, mail_parser>>

\* any goal with any query parser; nothing extracted yet
InitMail ==
    /\ mail_goal \in MailGoals
    /\ mail_parser \in QueryParsers
    /\ mail_params = MailParamsOf("not called", <<>>, FALSE)

IdleMail ==
    /\ mail_goal = <<>>
    /\ mail_parser = "none"
    /\ mail_params = MailParamsOf("not called", <<>>, FALSE)

(***************************************************************************)
(* GoogleAgent._determine_tools (agents/google_agent.py 172-213)           *)
(***************************************************************************)
\* GoogleAgentToolkit.tools: the names registered
ToolkitTools ==
    {"query_gmail", "read_email", "send_email", "list_gmail_labels",
     "list_calendars", "query_events", "create_event", "delete_event"}

\* the words of goals given to execute_task
TaskVocabulary ==
    {"email", "read", "Send", "count", "label", "how many", "meeting", "add",
     "address", "cancel", "list all", "list calendars", "weather"}

TaskGoals == UNION {[1..n -> TaskVocabulary] : n \in 0..MaxGoalLen}

\* the keywords of lines 188-211 that are substrings of a lower-case word
TaskKeywordsIn(w) ==
    CASE w \in {"email", "read", "send", "count", "label", "how many", "meeting",
                "add", "cancel", "list all"} -> {w}
      [] w = "address" -> {"add"}
      [] w = "list calendars" -> {"list calendars", "calendar"}
      [] OTHER -> {}

\* any(word in goal_lower for word in words)
AnyWordIn(g, words) ==
    \E i \in 1..Len(g) : TaskKeywordsIn(Lower(g[i])) \cap words # {}

\* line 188
EmailDomain(g) == AnyWordIn(g, {"email", "gmail", "inbox", "send", "read", "message"})

\* line 201
CalendarDomain(g) ==
    AnyWordIn(g, {"calendar", "event", "schedule", "meeting", "appointment"})

EmailToolLastMatch(g) ==
    IF AnyWordIn(g, {"label", "folder"}) THEN "list_gmail_labels"
    ELSE IF AnyWordIn(g, {"send", "write"}) THEN "send_email"
    ELSE "query_gmail"

\* lines 189-198
EmailTool(g) ==
    IF AnyWordIn(g, {"count", "how many", "total"}) THEN "query_gmail"
    ELSE IF AnyWordIn(g, {"read", "show", "display"}) THEN "query_gmail"
    ELSE IF AnyWordIn(g, {"send", "write"}) THEN "send_email"
    ELSE IF AnyWordIn(g, {"label", "folder"}) THEN "list_gmail_labels"
    ELSE "query_gmail"

\* lines 202-211
CalendarTool(g) ==
    IF AnyWordIn(g, {"create", "add"}) THEN "create_event"
    ELSE IF AnyWordIn(g, {"delete", "remove", "cancel"}) THEN "delete_event"
    ELSE IF AnyWordIn(g, {"list all", "list calendars"}) THEN "list_calendars"
    ELSE "query_events"

\* lines 183-211: the list tools after both domain tests
KeywordTools(g) ==
    (IF EmailDomain(g) THEN <<EmailTool(g)>> ELSE <<>>)
        \o (IF CalendarDomain(g) THEN <<CalendarTool(g)>> ELSE <<>>)

\* what the language model may say when asked for a tool name
LLMResponses == {"query_gmail", "Query_Events", "read_file", ""}

\* llm_parser.py 181-183 and 256-259: response text, stripped and lower-cased
LLMDetermineTool(response) == Lower(response)

\* self.query_parser is None, or determine_tool raises, or it answers
TaskParsers ==
    {[kind |-> k, response |-> ""] : k \in {"none", "raises"}}
        \cup {[kind |-> "answers", response |-> r] : r \in LLMResponses}

DetermineToolsNoDefault(g, parser) ==
    IF parser.kind = "answers" THEN <<LLMDetermineTool(parser.response)>>
    ELSE KeywordTools(g)

\* lines 172-213
DetermineTools(g, parser) ==
    IF parser.kind = "answers" THEN <<LLMDetermineTool(parser.response)>>
    ELSE IF KeywordTools(g) # <<>> THEN KeywordTools(g) ELSE <<"query_gmail">>

\* one call _determine_tools(goal)
DetermineToolsCall ==
    /\ ~tools_needed.returned
    /\ tools_needed' = [returned |-> TRUE, tools |-> DetermineTools(task_goal, task_parser)]
    /\ UNCHANGED <<task_goal, task_parser>>

\* any goal with any query parser; nothing selected yet
InitSelect ==
    /\ task_goal \in TaskGoals
    /\ task_parser \in TaskParsers
    /\ tools_needed = [returned |-> FALSE, tools |-> <<>>]

IdleSelect ==
    /\ task_goal = <<>>
    /\ task_parser = [kind |-> "none", response |-> ""]
    /\ tools_needed = [returned |-> FALSE, tools |-> <<>>]

(***************************************************************************)
(* agent/memory.py: Memory used on its own                                 *)
(***************************************************************************)
\* the texts added to a memory
MemoryTexts == {<<"a">>, <<"b">>, <<"c">>}

\* the limits build_context is called with
Limits == 0..(MaxMemory + 1)

\* one call memory.add(text)
MemoryAddCall ==
    /\ Len(memory_items) < MaxMemory
    /\ \E text \in MemoryTexts : memory_items' = MemoryAdd(memory_items, text)
    /\ memory_op' = "add"
    /\ UNCHANGED <<context_limit, context>>

\* one call memory.build_context(max_items)
BuildContextCall ==
    \E limit \in Limits :
        /\ context_limit' = limit
        /\ context' = BuildContext(memory_items, limit)
        /\ memory_op' = "build_context"
        /\ UNCHANGED memory_items

\* Memory(): no items; no context built yet
InitMemory ==
    /\ memory_items = <<>>
    /\ context_limit = MaxItemsDefault
    /\ context = <<>>
    /\ memory_op = "init"

IdleMemory ==
    /\ memory_items = <<>>
    /\ context_limit = MaxItemsDefault
    /\ context = <<>>
    /\ memory_op = "idle"

(***************************************************************************)
(* GoogleAgentToolkit.execute (agents/google_agent.py 41-59)               *)
(***************************************************************************)
\* names execute may be called with: the registered ones, and three that
\* the toolkit does not have
ExecuteNames == ToolkitTools \cup {"noop", "read_file", ""}

\* what the tool's run does when it is invoked: it returns a result dict,
\* {"ok": True, ...} or {"ok": False, "error": ...}, or it raises
RunBehaviours ==
    [kind : {"returns"}, ok : {TRUE}, error : {PyNone},
     cls : {None}, text : {None}]
    \cup [kind : {"returns"}, ok : {FALSE}, error : {Str(<<"credentials not found">>)},
          cls : {None}, text : {None}]
    \cup [kind : {"raises"}, ok : {FALSE}, error : {PyNone},
          cls : ExceptionClasses, text : ExceptionTexts]

GetToolAlwaysFound(name) == name

\* GoogleAgentToolkit.get_tool: self.tools.get(name)
GetTool(name) == IF name \in ToolkitTools THEN name ELSE None

\* the outcome of a call: a dict returned or an exception leaving the call,
\* with the number of times a tool's run was invoked
Outcome(outcome, ok, error, runs) ==
    [outcome |-> outcome, ok |-> ok, error |-> error, runs |-> runs]

\* f"Tool '{tool_name}' not found"
NotFoundError(tool_name) == Str(<<"Tool '", tool_name, "' not found">>)

\* f"Failed to execute {tool_name}: {e}"
FailedToExecuteError(tool_name, text) ==
    Str(<<"Failed to execute ", tool_name, ": ", text>>)

\* GoogleAgentToolkit.execute(tool_name, **kwargs), the tool behaving as b
ToolkitExecute(tool_name, b) ==
    IF GetTool(tool_name) = None
    THEN Outcome("returned", FALSE, NotFoundError(tool_name), 0)
    ELSE IF b.kind = "returns"
    THEN Outcome("returned", b.ok, b.error, 1)
    ELSE IF Catches(b.cls)
    THEN Outcome("returned", FALSE, FailedToExecuteError(tool_name, b.text), 1)
    ELSE Outcome("raised", FALSE, PyNone, 1)

\* one call toolkit.execute(tool_name, **kwargs)
ExecuteCall ==
    /\ exec_result.outcome = "not called"
    /\ exec_result' = ToolkitExecute(exec_call.tool_name, exec_call.behaviour)
    /\ UNCHANGED exec_call

\* any name, with any behaviour of the tool; execute not called yet
InitExecute ==
    /\ exec_call \in [tool_name : ExecuteNames, behaviour : RunBehaviours]
    /\ exec_result = Outcome("not called", FALSE, PyNone, 0)

IdleExecute ==
    /\ exec_call = [tool_name |-> "",
                    behaviour |-> [kind |-> "returns", ok |-> TRUE, error |-> PyNone,
                                   cls |-> None, text |-> None]]
    /\ exec_result = Outcome("not called", FALSE, PyNone, 0)

(***************************************************************************)
(* agent/planner.py: ClaudePlanner, and run_agent driven by it with the    *)
(* tools of main.build_tools                                               *)
(***************************************************************************)
\* what client.send_prompt does in one planning call.  shape tells what the
\* response is: the call raises; text that is not JSON; JSON that is a
\* number, a list or a string; a JSON string or list that has 'name', 'args'
\* and 'reason' in it ("words"); a JSON object, with the value of its name
\* key and of its reason key (None: no such key) and whether it has args
PlannerResponses ==
    [shape : {"raises", "not json", "number", "list", "string", "words"},
     name : {None}, has_args : {FALSE}, reason : {None}]
    \cup [shape : {"object"}, name : {"noop", "query_gmail", "describe_state"},
          has_args : {TRUE}, reason : {"because"}]
    \cup [shape : {"object"}, name : {None}, has_args : BOOLEAN, reason : {None, "because"}]
    \cup [shape : {"object"}, name : {"query_gmail"}, has_args : {FALSE}, reason : {"because"}]
    \cup [shape : {"object"}, name : {"query_gmail"}, has_args : {TRUE}, reason : {None}]

\* the reason of the noop that the except clauses of _execute_plan return:
\* f"Failed to parse Claude response: {e}" and f"Planner error: {e}"
FailureReason(shape) ==
    CASE shape = "not json" -> "Failed to parse Claude response: Expecting value"
      [] shape = "raises" -> "Planner error: connection failed"
      [] shape = "number" -> "Planner error: argument of type 'int' is not iterable"
      [] shape = "list" -> "Planner error: list indices must be integers"
      [] shape = "string" -> "Planner error: 'str' object does not support item assignment"

\* a proposal: a dict with its name and reason, or a value that is no dict
Proposal(kind, name, reason) == [kind |-> kind, name |-> name, reason |-> reason]

\* ClaudePlanner._execute_plan (lines 159-207)
ExecutePlan(r) ==
    IF r.shape \in {"raises", "not json", "number", "list", "string"}
    THEN Proposal("dict", "noop", FailureReason(r.shape))
    ELSE IF r.shape = "words"
    THEN \* every `"key" not in action` test is false: the value is returned
         Proposal("other", None, None)
    ELSE Proposal("dict",
                  IF r.name = None THEN "noop" ELSE r.name,
                  IF r.reason = None THEN "Claude response" ELSE r.reason)

\* NoopTool.run: {"done": True, "message": "No action taken"}
NoopResult == [kind |-> "dict", done |-> TRUE, discrepancy_warning |-> None, error |-> None]

\* QueryGmail.run returns a dict without "done", with or without a warning
GmailResults ==
    [kind : {"dict"}, done : {FALSE}, discrepancy_warning : Warnings \cup {None},
     error : {None}]

\* what the run of a registered tool may return
RunResults(name) == IF name = "noop" THEN {NoopResult} ELSE GmailResults

\* an iteration whose proposal names no registered tool
PlannedSkip ==
    \E r \in PlannerResponses :
        /\ ExecutePlan(r).kind = "dict"
        /\ Skip(ExecutePlan(r).name, ExecutePlan(r).reason)
        /\ planner_response' = r

\* an iteration whose tool returns
PlannedRun ==
    \E r \in PlannerResponses :
        /\ ExecutePlan(r).kind = "dict"
        /\ \E result \in RunResults(ExecutePlan(r).name) :
              Run(ExecutePlan(r).name, ExecutePlan(r).reason, result)
        /\ planner_response' = r

\* an iteration whose tool raises; NoopTool.run takes any arguments and
\* never raises
PlannedRaise ==
    \E r \in PlannerResponses, cls \in ExceptionClasses, text \in ExceptionTexts :
        /\ ExecutePlan(r).kind = "dict"
        /\ ExecutePlan(r).name # "noop"
        /\ Raise(ExecutePlan(r).name, ExecutePlan(r).reason, cls, text)
        /\ planner_response' = r

\* an iteration whose proposal is no dict: proposal.get (agent.py 37)
\* raises AttributeError, which leaves run_agent
PlannedFault ==
    \E r \in PlannerResponses :
        /\ ExecutePlan(r).kind = "other"
        /\ Enters
        /\ step' = step + 1
        /\ ctx' = BuildContext(items, MaxItemsDefault)
        /\ planner_calls' = planner_calls + 1
        /\ pc' = "raised"
        /\ last' = [kind |-> "fault", name |-> None, text |-> None]
        /\ planner_response' = r
        /\ UNCHANGED <<max_steps, done, history, results, items, tool_runs>>

\* no planning call made yet
IdlePlanner ==
    planner_response = [shape |-> "none", name |-> None, has_args |-> FALSE,
                        reason |-> None]

(***************************************************************************)
(* agents/google_agent.py: GoogleAgent.execute_task                        *)
(***************************************************************************)
\* the largest max_steps a call is made with
MaxTaskSteps == 2

\* goals that select one tool, two tools (both domains) and the default
ExecuteGoals ==
    {<<"email">>, <<"meeting">>, <<"email", "meeting">>,
     <<"Send", "email", "meeting">>, <<"weather">>}

\* what a tool does in a task: it returns ok, returns a failure, or raises
TaskBehaviours ==
    {b \in RunBehaviours : b.kind = "raises" => b.cls = "RuntimeError" /\ b.text = "boom"}

\* what the query parser's parse_gmail_query / parse_calendar_query does:
\* it raises, it returns a mapping, or it returns what _call_llm's
\* json.loads made of the answer and execute(tool_name, **params) cannot
\* take (a list, null, a mapping with the key tool_name)
LLMParams == {"raises", "mapping", "other"}

\* the result of one step: what toolkit.execute returned, of which tool
StepResult(tool, r) == [tool |-> tool, ok |-> r.ok, error |-> r.error]

\* result = None
NoResult == [tool |-> None, ok |-> FALSE, error |-> PyNone]

\* f"Max steps ({max_steps}) exceeded"
MaxStepsError(n) == Str(<<"Max steps (", ToString(n), ") exceeded">>)

\* str(e) of the TypeError that execute(tool_name, **params) raises
ParamsError == Str(<<"execute() argument after ** must be a mapping">>)

\* _extract_parameters (lines 215-365): what is passed on as params
ExtractTaskParameters(parser, tool_name, llm) ==
    IF parser.kind # "none" /\ tool_name \in {"query_gmail", "query_events"}
           /\ llm # "raises"
    THEN llm
    ELSE "mapping"

\* task_record (lines 109-115) with the locals execution_count and result
NewTask ==
    [execution_count |-> 0, result |-> NoResult, steps |-> <<>>,
     recorded |-> NoResult, error |-> PyNone, runs |-> 0]

RECURSIVE TaskLoop(_, _, _, _, _, _, _)
\* lines 124-154: the iterations from tool i on
TaskLoop(tools, i, maxsteps, parser, beh, llm, t) ==
    IF i > Len(tools)
    THEN \* line 150, task_record["result"] = result: reached when the loop
         \* ends without an exception
         [t EXCEPT !.recorded = t.result]
    ELSE IF t.execution_count >= maxsteps
    THEN [t EXCEPT !.error = MaxStepsError(maxsteps)]
    ELSE IF ExtractTaskParameters(parser, tools[i], llm[i]) = "other"
    THEN [t EXCEPT !.error = ParamsError]
    ELSE TaskLoop(tools, i + 1, maxsteps, parser, beh, llm,
                  [t EXCEPT !.execution_count = @ + 1,
                            !.runs = @ + ToolkitExecute(tools[i], beh[i]).runs,
                            !.steps = Append(@, StepResult(tools[i],
                                                ToolkitExecute(tools[i], beh[i]))),
                            !.result = IF ToolkitExecute(tools[i], beh[i]).ok
                                       THEN StepResult(tools[i],
                                                ToolkitExecute(tools[i], beh[i]))
                                       ELSE @])

\* the record appended to task_history
TaskRecord(t) == [steps |-> t.steps, result |-> t.recorded, error |-> t.error]

TaskReturnAlwaysOk(t, th) ==
    [called |-> TRUE, ok |-> TRUE, result |-> t.result,
     steps_executed |-> t.execution_count, runs |-> t.runs,
     task_id |-> Len(th) - 1]

\* the dict of lines 163-170; task_id is the index in Python's counting
TaskReturn(t, th) ==
    [called |-> TRUE, ok |-> t.error = PyNone, result |-> t.result,
     steps_executed |-> t.execution_count, runs |-> t.runs,
     task_id |-> Len(th) - 1]

\* one call execute_task(goal, max_steps)
ExecuteTask ==
    /\ ~task_return.called
    /\ tools_needed' = [returned |-> TRUE, tools |-> DetermineTools(task_goal, task_parser)]
    /\ LET t == TaskLoop(DetermineTools(task_goal, task_parser), 1, task_call.max_steps,
                         task_parser, task_call.behaviours, task_call.llm, NewTask)
       IN /\ task_history' = Append(task_history, TaskRecord(t))
          /\ task_return' = TaskReturn(t, Append(task_history, TaskRecord(t)))
    /\ UNCHANGED <<task_goal, task_parser, task_call>>

NotReturned ==
    [called |-> FALSE, ok |-> FALSE, result |-> NoResult, steps_executed |-> 0,
     runs |-> 0, task_id |-> 0]

\* any goal, parser, limit and behaviour of the tools and of the parser, in
\* an agent that has done no task or one task
InitTask ==
    /\ task_goal \in ExecuteGoals
    /\ task_parser \in TaskParsers
    /\ tools_needed = [returned |-> FALSE, tools |-> <<>>]
    /\ task_call \in [max_steps : (-1)..MaxTaskSteps,
                      behaviours : [1..2 -> TaskBehaviours],
                      llm : [1..2 -> LLMParams]]
    /\ task_history \in {<<>>, <<[steps |-> <<>>, result |-> NoResult, error |-> PyNone]>>}
    /\ task_return = NotReturned

IdleTask ==
    /\ task_call = [max_steps |-> 0,
                    behaviours |-> [i \in 1..2 |-> CHOOSE b \in TaskBehaviours : b.ok],
                    llm |-> [i \in 1..2 |-> "raises"]]
    /\ task_history = <<>>
    /\ task_return = NotReturned

\* AgentState(goal=...) and Memory() as main builds them, for every max_steps
InitAgent ==
    /\ step = 0
    /\ max_steps \in {Limit(n) : n \in 0..MaxSteps} \cup {NoLimit}
    /\ done = FALSE
    /\ history = <<>>
    /\ results = <<>>
    /\ items = <<>>
    /\ ctx = <<>>
    /\ pc = "loop"
    /\ planner_calls = 0
    /\ tool_runs = 0
    /\ last = [kind |-> "none", name |-> None, text |-> None]

IdleAgent ==
    /\ step = 0
    /\ max_steps = NoLimit
    /\ done = FALSE
    /\ history = <<>>
    /\ results = <<>>
    /\ items = <<>>
    /\ ctx = <<>>
    /\ pc = "idle"
    /\ planner_calls = 0
    /\ tool_runs = 0
    /\ last = [kind |-> "none", name |-> None, text |-> None]

IdleGmail ==
    /\ gmail_call = [service |-> "ok", count_all |-> FALSE, count_only |-> FALSE,
                     max_results |-> 0, matching |-> 0, estimate |-> 0,
                     fetch_ok |-> [i \in 1..MaxMessages |-> TRUE]]
    /\ gmail_result = [NoGmailFields EXCEPT !.path = "not called"]

IdleDate ==
    /\ goal = <<>>
    /\ now = NoDate
    /\ query_parser = "none"
    /\ params = ParamsOf("not called", FALSE, NoDate, NoDate)

Init == InitAgent /\ IdleGmail /\ IdleDate /\ IdleMail /\ IdleSelect /\ IdleMemory /\ IdleExecute /\ IdlePlanner /\ IdleTask

Next ==
    \/ StepSkip /\ UNCHANGED <<gmailVars, dateVars, mailVars, selectVars, memVars, execVars, planVars, taskVars>>
    \/ StepRun /\ UNCHANGED <<gmailVars, dateVars, mailVars, selectVars, memVars, execVars, planVars, taskVars>>
    \/ StepRaise /\ UNCHANGED <<gmailVars, dateVars, mailVars, selectVars, memVars, execVars, planVars, taskVars>>
    \/ Return /\ UNCHANGED <<gmailVars, dateVars, mailVars, selectVars, memVars, execVars, planVars, taskVars>>

Spec == Init /\ [][Next]_vars

\* run_agent is one synchronous loop: while an iteration or the return is
\* possible, one of them happens
FairSpec == Spec /\ WF_vars(Next)

InitG == IdleAgent /\ InitGmail /\ IdleDate /\ IdleMail /\ IdleSelect /\ IdleMemory /\ IdleExecute /\ IdlePlanner /\ IdleTask

NextG == GmailQuery /\ UNCHANGED <<agentVars, dateVars, mailVars, selectVars, memVars, execVars, planVars, taskVars>>

SpecGmail == InitG /\ [][NextG]_vars

InitD == IdleAgent /\ IdleGmail /\ InitDate /\ IdleMail /\ IdleSelect /\ IdleMemory /\ IdleExecute /\ IdlePlanner /\ IdleTask

NextD == ExtractEventParams /\ UNCHANGED <<agentVars, gmailVars, mailVars, selectVars, memVars, execVars, planVars, taskVars>>

SpecDate == InitD /\ [][NextD]_vars

InitM == IdleAgent /\ IdleGmail /\ IdleDate /\ InitMail /\ IdleSelect /\ IdleMemory /\ IdleExecute /\ IdlePlanner /\ IdleTask

NextM == ExtractMailParams /\ UNCHANGED <<agentVars, gmailVars, dateVars, selectVars, memVars, execVars, planVars, taskVars>>

SpecMail == InitM /\ [][NextM]_vars

InitS == IdleAgent /\ IdleGmail /\ IdleDate /\ IdleMail /\ InitSelect /\ IdleMemory /\ IdleExecute /\ IdlePlanner /\ IdleTask

NextS == DetermineToolsCall /\ UNCHANGED <<agentVars, gmailVars, dateVars, mailVars, memVars, execVars, planVars, taskVars>>

SpecSelect == InitS /\ [][NextS]_vars

InitMem == IdleAgent /\ IdleGmail /\ IdleDate /\ IdleMail /\ IdleSelect /\ InitMemory /\ IdleExecute /\ IdlePlanner /\ IdleTask

NextMem ==
    \/ MemoryAddCall /\ UNCHANGED <<agentVars, gmailVars, dateVars, mailVars, selectVars, execVars, planVars, taskVars>>
    \/ BuildContextCall /\ UNCHANGED <<agentVars, gmailVars, dateVars, mailVars, selectVars, execVars, planVars, taskVars>>

SpecMemory == InitMem /\ [][NextMem]_vars

InitE ==
    IdleAgent /\ IdleGmail /\ IdleDate /\ IdleMail /\ IdleSelect /\ IdleMemory /\ InitExecute /\ IdlePlanner /\ IdleTask

NextE ==
    ExecuteCall /\ UNCHANGED <<agentVars, gmailVars, dateVars, mailVars, selectVars, memVars, planVars, taskVars>>

SpecToolkit == InitE /\ [][NextE]_vars

InitP ==
    /\ InitAgent /\ IdleGmail /\ IdleDate /\ IdleMail /\ IdleSelect /\ IdleMemory
    /\ IdleExecute /\ IdlePlanner /\ IdleTask

NextP ==
    \/ PlannedSkip /\ UNCHANGED <<gmailVars, dateVars, mailVars, selectVars, memVars, execVars, taskVars>>
    \/ PlannedRun /\ UNCHANGED <<gmailVars, dateVars, mailVars, selectVars, memVars, execVars, taskVars>>
    \/ PlannedRaise /\ UNCHANGED <<gmailVars, dateVars, mailVars, selectVars, memVars, execVars, taskVars>>
    \/ PlannedFault /\ UNCHANGED <<gmailVars, dateVars, mailVars, selectVars, memVars, execVars, taskVars>>
    \/ Return /\ UNCHANGED <<gmailVars, dateVars, mailVars, selectVars, memVars, execVars, planVars, taskVars>>

SpecPlanned == InitP /\ [][NextP]_vars

InitT ==
    /\ IdleAgent /\ IdleGmail /\ IdleDate /\ IdleMail /\ IdleMemory /\ IdleExecute
    /\ IdlePlanner /\ InitTask

NextT ==
    ExecuteTask /\ UNCHANGED <<agentVars, gmailVars, dateVars, mailVars, memVars,
                               execVars, planVars>>

SpecTask == InitT /\ [][NextT]_vars

(***************************************************************************)
(* Properties of run_agent                                                 *)
(***************************************************************************)
\* the result most recently appended to state.results
LastResult == results[Len(results)].result

\* no recorded tool result carries a truthy "done"
NoDoneSignal == \A i \in 1..Len(results) : ~results[i].result.done

\* some recorded tool result carries a truthy "done"
DoneRequested == \E i \in 1..Len(results) : results[i].result.done

\* C1: with max_steps = N set and no tool result ever carrying a truthy
\* "done", run_agent returns, and it returns after exactly N iterations: N
\* planner calls and state.step = N (N = 3 included).
C1_ExactlyMaxStepsIterations ==
    /\ [](pc = "returned" /\ max_steps.set /\ NoDoneSignal
            => step = max_steps.n /\ planner_calls = max_steps.n)
    /\ (max_steps.set => <>(pc = "returned"))

C1_Witness ==
    /\ pc = "returned"
    /\ max_steps = Limit(MaxSteps)
    /\ NoDoneSignal
    /\ step = MaxSteps
    /\ planner_calls = MaxSteps

\* C2: when a registered tool's run raises, the exception does not leave
\* run_agent: an entry carrying str(exc) is appended to state.results and
\* control is back at the loop's termination check.
C2_RaiseIsCaptured ==
    /\ [](pc # "raised")
    /\ [][tool_runs' = tool_runs + 1 /\ last'.kind = "raise"
            => /\ results' = Append(results, results'[Len(results')])
               /\ results'[Len(results')].tool = last'.name
               /\ results'[Len(results')].result.error = last'.text
               /\ pc' = "loop"]_vars

C2_Witness ==
    /\ last.kind = "raise"
    /\ last.text = "boom"
    /\ Len(results) >= 2
    /\ results[1].result.error = "boom"
    /\ pc = "returned"

\* C3: when the planner proposes a name that is not in tools, no tool is
\* run, state.results and memory are unchanged, state.step has grown by one,
\* history got the proposal line and then the 'no tool' note, and control is
\* back at the loop's termination check.
C3_UnregisteredIsSkipped ==
    [][planner_calls' = planner_calls + 1 /\ last'.name \notin Registered
        => /\ tool_runs' = tool_runs
           /\ results' = results
           /\ items' = items
           /\ step' = step + 1
           /\ Len(history') = Len(history) + 2
           /\ SubSeq(history', 1, Len(history)) = history
           /\ history'[Len(history')] = HistoryNoTool(last'.name)
           /\ pc' = "loop"]_vars

C3_Witness ==
    /\ last.kind = "skip"
    /\ step = 2
    /\ tool_runs = 1
    /\ Len(results) = 1
    /\ Len(history) = 3

\* C4: a tool result with a truthy "done" is still recorded (results and
\* memory each get its entry) and sets state.done; after it the planner is
\* never called and no tool is run again: the only step left is the return.
C4_DoneEndsTheLoop ==
    /\ [][Len(results') = Len(results) + 1 /\ results'[Len(results')].result.done
            => /\ done'
               /\ Len(items') = Len(items) + 1
               /\ items'[Len(items')] = MemoryEntry(results'[Len(results')].tool,
                                                    results'[Len(results')].result)
               /\ pc' = "loop"]_vars
    /\ [][DoneRequested
            => /\ planner_calls' = planner_calls
               /\ tool_runs' = tool_runs
               /\ pc' = "returned"]_vars

C4_Witness ==
    /\ pc = "returned"
    /\ done
    /\ max_steps = Limit(MaxSteps)
    /\ step = 1
    /\ planner_calls = 1
    /\ Len(results) = 1
    /\ Len(items) = 1

\* C5: is_complete() is true exactly when max_steps is set and step >=
\* max_steps, or some tool result has requested completion; once true it stays
\* true, and no iteration executes after it.
C5_TerminatedIsAbsorbing ==
    /\ [](IsComplete(done, step, max_steps)
            <=> ((max_steps.set /\ step >= max_steps.n) \/ DoneRequested))
    /\ [][IsComplete(done, step, max_steps)
            => /\ IsComplete(done', step', max_steps')
               /\ step' = step
               /\ planner_calls' = planner_calls
               /\ tool_runs' = tool_runs
               /\ history' = history
               /\ results' = results]_vars

C5_Witness ==
    /\ pc = "returned"
    /\ DoneRequested
    /\ max_steps.set
    /\ step < max_steps.n
    /\ results[1].result.kind = "dict"
    /\ ~results[1].result.done

\* C7: when the most recently recorded tool result has a discrepancy warning
\* and the planner is called again, the context passed to that call contains
\* the warning text.
C7_WarningInNextContext ==
    [][planner_calls' = planner_calls + 1 /\ Len(results) > 0
         /\ LastResult.discrepancy_warning # None
        => Contains(ctx', LastResult.discrepancy_warning)]_vars

C7_Witness ==
    /\ planner_calls >= 2
    /\ Len(results) = 1
    /\ LastResult.discrepancy_warning \in Warnings
    /\ Contains(ctx, LastResult.discrepancy_warning)

Retrieved ==
    {i \in 1..Min(gmail_call.matching, MaxMessages) :
        /\ i <= gmail_call.max_results \/ gmail_call.max_results < 1
        /\ gmail_call.fetch_ok[i]}

\* C6: on the listing path the result carries a non-null discrepancy warning
\* if and only if returned > 0 and total > 2 * returned, where returned is the
\* number of messages actually retrieved and total the service's estimate.
C6_DiscrepancyIff ==
    gmail_result.path = "listing"
        => /\ gmail_result.returned = Cardinality(Retrieved)
           /\ gmail_result.total_results = gmail_call.estimate
           /\ (~gmail_result.discrepancy_warning.null
                 <=> (Cardinality(Retrieved) > 0
                        /\ gmail_call.estimate > 2 * Cardinality(Retrieved)))

\* flagged: 2 retrieved of an estimated 5, one listed message not retrievable
C6_Witness ==
    /\ gmail_result.path = "listing"
    /\ gmail_call.matching = 3
    /\ gmail_result.returned = 2
    /\ gmail_result.total_results = 5
    /\ ~gmail_result.discrepancy_warning.null

\* not flagged: the estimate is exactly twice what was retrieved
C6_WitnessBoundary ==
    /\ gmail_result.path = "listing"
    /\ gmail_result.returned = 2
    /\ gmail_result.total_results = 4
    /\ gmail_result.discrepancy_warning.null

(***************************************************************************)
(* Properties of the date inference of _extract_parameters                 *)
(***************************************************************************)
\* the regexes decided (no query parser, or it raised)
RegexExtracted == params.source = "regex"

\* the number (1-12) of the first month name in the goal
NamedMonth == MonthMap(MonthMatch(goal), now)

\* the year the upcoming occurrence of month m lies in
UpcomingYear(m) == IF m < now.m THEN now.y + 1 ELSE now.y

\* the inferred range is a week k (1-5) counted from the first Monday of
\* month m of year y
IsWeekOfMonth(y, m) ==
    /\ params.has_range
    /\ \E k \in 1..5 :
          LET first == PlusDays(params.time_min, 0 - 7 * (k - 1))
          IN first.y = y /\ first.m = m /\ first.d <= 7

C9_WitnessSameMonth ==
    /\ RegexExtracted
    /\ goal = <<"dec", "third week">>
    /\ now.m = 12
    /\ params.time_min.y = RefYear
    /\ params.time_min.m = 12

\* C10: for every goal with a month name and an ordinal week, the inferred
\* range starts on a Monday and ends exactly 6 days later.
C10_OrdinalWeekIsMondayToSunday ==
    RegexExtracted /\ MonthMatch(goal) # None /\ WeekMatch(goal) # None
        => /\ params.has_range
           /\ Weekday(params.time_min) = 0
           /\ ToOrdinal(params.time_max) - ToOrdinal(params.time_min) = 6

\* what the code does hold to: without 'today' in the goal
C10_WithoutToday ==
    /\ RegexExtracted
    /\ ~HasSubstring(goal, "today")
    /\ MonthMatch(goal) # None
    /\ WeekMatch(goal) # None
    => /\ params.has_range
       /\ Weekday(params.time_min) = 0
       /\ ToOrdinal(params.time_max) - ToOrdinal(params.time_min) = 6

\* the goal has a month name and an '<ordinal> week' phrase
MonthAndOrdinalWeek == MonthMatch(goal) # None /\ WeekMatch(goal) # None

\* the ordinal (1-5) of the first '<ordinal> week' phrase in the goal
NamedWeek == WeekMap(WeekMatch(goal))

\* the 1st of the upcoming occurrence of the named month
FirstOfNamedMonth == [y |-> UpcomingYear(NamedMonth), m |-> NamedMonth, d |-> 1]

\* days (0-6) from date dt to the first Monday on or after it
OffsetToMonday(dt) == CHOOSE k \in 0..6 : Weekday(PlusDays(dt, k)) = 0

\* C11: for every month + ordinal-week goal, the range starts on (first
\* Monday on or after the 1st of the resolved month) + (ordinal - 1) * 7
\* days, the offset from the 1st to that Monday being 0 when the 1st is a
\* Monday, and ends 6 days later.
C11_StartIsOrdinalMonday ==
    RegexExtracted /\ MonthAndOrdinalWeek
        => /\ params.has_range
           /\ params.time_min = PlusDays(FirstOfNamedMonth,
                                         OffsetToMonday(FirstOfNamedMonth)
                                            + 7 * (NamedWeek - 1))
           /\ params.time_max = PlusDays(params.time_min, 6)
           /\ Weekday(FirstOfNamedMonth) = 0
                 => params.time_min = PlusDays(FirstOfNamedMonth, 7 * (NamedWeek - 1))

\* what the code does hold to: the same without 'today' in the goal
C11_WithoutToday ==
    RegexExtracted /\ MonthAndOrdinalWeek /\ ~HasSubstring(goal, "today")
        => /\ params.has_range
           /\ params.time_min = PlusDays(FirstOfNamedMonth,
                                         OffsetToMonday(FirstOfNamedMonth)
                                            + 7 * (NamedWeek - 1))
           /\ params.time_max = PlusDays(params.time_min, 6)
           /\ Weekday(FirstOfNamedMonth) = 0
                 => params.time_min = PlusDays(FirstOfNamedMonth, 7 * (NamedWeek - 1))

\* C12: for every goal that contains 'today' and no month + ordinal-week
\* expression, the inferred range has start = end = the reference date.
C12_TodayIsOneDay ==
    RegexExtracted /\ HasSubstring(goal, "today") /\ ~MonthAndOrdinalWeek
        => /\ params.has_range
           /\ params.time_min = now
           /\ params.time_max = now

\* what the code returns for such a goal: the reference date and the day
\* after it
C12_TodayAndTomorrow ==
    RegexExtracted /\ HasSubstring(goal, "today") /\ ~MonthAndOrdinalWeek
        => /\ params.has_range
           /\ params.time_min = now
           /\ params.time_max = PlusDays(now, 1)

\* the goal has no 'today', no 'week' and no month + ordinal week
NoTemporalExpression ==
    /\ ~HasSubstring(goal, "today")
    /\ ~HasSubstring(goal, "week")
    /\ ~MonthAndOrdinalWeek

\* the Monday of the week the reference date lies in
MondayOfNow == PlusDays(now, 0 - Weekday(now))

\* C13: for every goal with no recognizable temporal expression, the
\* inference returns the Monday-Sunday range of the week containing the
\* reference date.
C13_FallbackIsCurrentWeek ==
    RegexExtracted /\ NoTemporalExpression
        => /\ params.has_range
           /\ params.time_min = MondayOfNow
           /\ params.time_max = PlusDays(MondayOfNow, 6)

\* what the code returns for such a goal: no time_min and no time_max
C13_NoRangeReturned ==
    RegexExtracted /\ NoTemporalExpression => ~params.has_range

\* C14: for every goal containing 'week', without 'today' and without a
\* month + ordinal week, and every reference date d, the range is
\* [Monday(d) + 7, Monday(d) + 13] when the goal contains 'next' and
\* [Monday(d), Monday(d) + 6] otherwise, with Monday(d) = d - weekday(d);
\* when d is a Monday the current week starts on d.
C14_WeekRule ==
    /\ RegexExtracted
    /\ HasSubstring(goal, "week")
    /\ ~HasSubstring(goal, "today")
    /\ ~MonthAndOrdinalWeek
    => /\ params.has_range
       /\ Weekday(MondayOfNow) = 0
       /\ IF HasSubstring(goal, "next")
          THEN /\ params.time_min = PlusDays(MondayOfNow, 7)
               /\ params.time_max = PlusDays(MondayOfNow, 13)
          ELSE /\ params.time_min = PlusDays(MondayOfNow, 0)
               /\ params.time_max = PlusDays(MondayOfNow, 6)
               /\ Weekday(now) = 0 => params.time_min = now

\* 'week' asked on Monday 2024-01-01: the week starts that day
C14_Witness ==
    /\ RegexExtracted
    /\ goal = <<"week">>
    /\ now = [y |-> RefYear, m |-> 1, d |-> 1]
    /\ Weekday(now) = 0
    /\ params.time_min = now
    /\ params.time_max = [y |-> RefYear, m |-> 1, d |-> 7]

\* 'next week' asked on Sunday 2024-12-29: the week after, in the next year
C14_WitnessNext ==
    /\ RegexExtracted
    /\ goal = <<"next", "week">>
    /\ now = [y |-> RefYear, m |-> 12, d |-> 29]
    /\ params.time_min = [y |-> RefYear, m |-> 12, d |-> 30]
    /\ params.time_max = [y |-> RefYear + 1, m |-> 1, d |-> 5]

\* C15: for every goal and every reference date, the inference returns a
\* range with start date <= end date.
C15_RangeIsOrdered ==
    RegexExtracted
        => /\ params.has_range
           /\ ToOrdinal(params.time_min) <= ToOrdinal(params.time_max)

\* what the code does hold to: a range, when it returns one, is ordered
C15_OrderedWhenReturned ==
    RegexExtracted /\ params.has_range
        => ToOrdinal(params.time_min) <= ToOrdinal(params.time_max)

\* C16: for a 'fifth week' goal in a resolved month that has no fifth
\* Monday, the range returned never starts in the following month.
C16_FifthWeekStaysInMonth ==
    /\ RegexExtracted
    /\ ~HasSubstring(goal, "today")
    /\ MonthAndOrdinalWeek
    /\ NamedWeek = 5
    => /\ params.has_range
       /\ params.time_min.m = NamedMonth
       /\ params.time_min.y = UpcomingYear(NamedMonth)

\* a month with five Mondays: its fifth week does start in the month
C16_FifthMondayExists ==
    /\ RegexExtracted
    /\ goal = <<"5th week", "dec">>
    /\ now = [y |-> RefYear, m |-> 12, d |-> MidDay]
    /\ params.time_min = [y |-> RefYear, m |-> 12, d |-> 30]

(***************************************************************************)
(* Properties of the query filter of _extract_parameters                   *)
(***************************************************************************)
\* the regexes built the Gmail params (no query parser, or it raised)
MailRegexExtracted == mail_params.source = "regex"

\* the goal names a folder
MentionsFolder ==
    MailHas(mail_goal, "inbox") \/ MailHas(mail_goal, "sent") \/ MailHas(mail_goal, "draft")

\* the goal has an address
HasAddress == \E i \in 1..Len(mail_goal) : IsEmailAddress(mail_goal[i])

\* the first address in the goal
FirstAddress ==
    LET i == CHOOSE i \in 1..Len(mail_goal) :
                 /\ IsEmailAddress(mail_goal[i])
                 /\ \A j \in 1..(i - 1) : ~IsEmailAddress(mail_goal[j])
    IN mail_goal[i]

\* the goal asks for a number of emails
AsksForCount ==
    MailHas(mail_goal, "how many") \/ MailHas(mail_goal, "count") \/ MailHas(mail_goal, "total")

\* C17: for every goal with an email address and 'unread' but no folder
\* keyword, the query is 'from:<first address> is:unread', its two clauses
\* joined by one space, and count_all is set to true exactly when the goal
\* contains 'how many', 'count' or 'total'.
C17_SenderUnreadQuery ==
    /\ MailRegexExtracted
    /\ HasAddress
    /\ MailHas(mail_goal, "unread")
    /\ ~MentionsFolder
    => /\ mail_params.query = <<"from:", FirstAddress, " is:unread">>
       /\ mail_params.count_all <=> AsksForCount

\* 'how many unread alice@example.com'
C17_Witness ==
    /\ MailRegexExtracted
    /\ mail_goal = <<"how many", "unread", "alice@example.com">>
    /\ mail_params.query = <<"from:", "alice@example.com", " is:unread">>
    /\ mail_params.count_all

\* two addresses and no counting word: the first address, no count_all
C17_WitnessFirstOfTwo ==
    /\ MailRegexExtracted
    /\ mail_goal = <<"bob@example.org", "Unread", "alice@example.com">>
    /\ mail_params.query = <<"from:", "bob@example.org", " is:unread">>
    /\ ~mail_params.count_all

\* the literal piece that appends a clause after one space
Appended(clause) ==
    CASE clause = "in:inbox" -> " in:inbox"
      [] clause = "in:sent" -> " in:sent"
      [] clause = "in:draft" -> " in:draft"
      [] clause = "is:unread" -> " is:unread"

\* the query has the clause, at its start or after a space
HasClause(clause) ==
    \E i \in 1..Len(mail_params.query) :
        mail_params.query[i] \in {clause, Appended(clause)}

\* the query has the clause from:<first address>
HasFromClause ==
    \E i \in 1..(Len(mail_params.query) - 1) :
        mail_params.query[i] = "from:" /\ mail_params.query[i + 1] = FirstAddress

\* C18: for every goal with a sender address, the query has the
\* from:<address> clause and the clause of every folder keyword (inbox,
\* sent, draft) and of the unread keyword that the goal mentions.
C18_QualifiersKept ==
    MailRegexExtracted /\ HasAddress
        => /\ HasFromClause
           /\ MailHas(mail_goal, "inbox") => HasClause("in:inbox")
           /\ MailHas(mail_goal, "sent") => HasClause("in:sent")
           /\ MailHas(mail_goal, "draft") => HasClause("in:draft")
           /\ MailHas(mail_goal, "unread") => HasClause("is:unread")

\* what the code does hold to: the sender, inbox and unread clauses are
\* there, and no sent or draft clause ever is
C18_OnlyInboxKept ==
    MailRegexExtracted /\ HasAddress
        => /\ HasFromClause
           /\ MailHas(mail_goal, "inbox") => HasClause("in:inbox")
           /\ MailHas(mail_goal, "unread") => HasClause("is:unread")
           /\ ~HasClause("in:sent")
           /\ ~HasClause("in:draft")

(***************************************************************************)
(* Properties of _determine_tools                                          *)
(***************************************************************************)
\* the keyword rules decided (no query parser, or determine_tool raised)
KeywordSelected == tools_needed.returned /\ task_parser.kind # "answers"

\* the goal matches no domain keyword
NoDomain == ~EmailDomain(task_goal) /\ ~CalendarDomain(task_goal)

\* C19 as stated: for every goal the list returned is non-empty, and when
\* the goal matches neither the email nor the calendar domain keywords it
\* is exactly ['query_gmail'].
C19_DefaultForEveryGoal ==
    tools_needed.returned
        => /\ Len(tools_needed.tools) >= 1
           /\ NoDomain => tools_needed.tools = <<"query_gmail">>

\* C19 amended: for every goal the list returned is non-empty; when the
\* language model answers, it is the one-element list of its answer,
\* stripped and lower-cased, whatever the answer; otherwise the keyword
\* rules decide, every element is a tool of the toolkit, and a goal that
\* matches neither domain gives exactly ['query_gmail'].
C19_NonEmptyAndKeywordDefault ==
    tools_needed.returned
        => /\ Len(tools_needed.tools) >= 1
           /\ task_parser.kind = "answers"
                 => tools_needed.tools = <<Lower(task_parser.response)>>
           /\ task_parser.kind # "answers"
                 => /\ \A i \in 1..Len(tools_needed.tools) :
                          tools_needed.tools[i] \in ToolkitTools
                    /\ NoDomain => tools_needed.tools = <<"query_gmail">>

\* the classifier raised on a goal without domain keywords: the default
C19_Witness ==
    /\ tools_needed.returned
    /\ task_parser.kind = "raises"
    /\ task_goal = <<"weather">>
    /\ tools_needed.tools = <<"query_gmail">>

\* the classifier answered for the same goal: its answer, not the default
C19_WitnessAnswered ==
    /\ tools_needed.returned
    /\ task_parser = [kind |-> "answers", response |-> "Query_Events"]
    /\ task_goal = <<"weather">>
    /\ tools_needed.tools = <<"query_events">>

\* the rules of each domain in the listed order, and the tool of each
EmailRules ==
    <<{"count", "how many", "total"}, {"read", "show", "display"},
      {"send", "write"}, {"label", "folder"}>>
EmailRuleTools == <<"query_gmail", "query_gmail", "send_email", "list_gmail_labels">>
CalendarRules ==
    <<{"create", "add"}, {"delete", "remove", "cancel"}, {"list all", "list calendars"}>>
CalendarRuleTools == <<"create_event", "delete_event", "list_calendars">>

\* the tool of the first rule the goal matches, or the domain's default
FirstMatch(rules, rule_tools, default) ==
    IF \E k \in 1..Len(rules) : AnyWordIn(task_goal, rules[k])
    THEN rule_tools[CHOOSE k \in 1..Len(rules) :
                        /\ AnyWordIn(task_goal, rules[k])
                        /\ \A j \in 1..(k - 1) : ~AnyWordIn(task_goal, rules[j])]
    ELSE default

\* the number of rules of a domain the goal matches
MatchCount(rules) == Cardinality({k \in 1..Len(rules) : AnyWordIn(task_goal, rules[k])})

\* C20: in keyword tool selection each matched domain contributes exactly
\* one tool, that of the first rule that matches in the listed order, and
\* the email tool precedes the calendar tool when both domains match.
C20_FirstMatchPerDomain ==
    KeywordSelected /\ ~NoDomain
        => LET email == FirstMatch(EmailRules, EmailRuleTools, "query_gmail")
               calendar == FirstMatch(CalendarRules, CalendarRuleTools, "query_events")
           IN tools_needed.tools =
                 (IF EmailDomain(task_goal) THEN <<email>> ELSE <<>>)
                    \o (IF CalendarDomain(task_goal) THEN <<calendar>> ELSE <<>>)

\* 'email Send label' matches the send rule and the label rule: send wins
C20_Witness ==
    /\ KeywordSelected
    /\ task_goal = <<"email", "Send", "label">>
    /\ MatchCount(EmailRules) = 2
    /\ tools_needed.tools = <<"send_email">>

\* both domains: the email tool first, then the calendar tool
C20_WitnessBothDomains ==
    /\ KeywordSelected
    /\ task_goal = <<"label", "email", "list calendars">>
    /\ tools_needed.tools = <<"list_gmail_labels", "list_calendars">>

(***************************************************************************)
(* Rule order of the date inference, clause multiplicity of the query      *)
(***************************************************************************)
\* C26: a goal with a month + ordinal-week expression and the word 'today'
\* resolves to that ordinal week's Monday-Sunday range, not to today's
\* date: the month + ordinal-week rule is evaluated before 'today'.
C26_OrdinalWeekBeforeToday ==
    RegexExtracted /\ MonthAndOrdinalWeek /\ HasSubstring(goal, "today")
        => /\ params.has_range
           /\ Weekday(params.time_min) = 0
           /\ params.time_min = PlusDays(FirstOfNamedMonth,
                                         OffsetToMonday(FirstOfNamedMonth)
                                            + 7 * (NamedWeek - 1))
           /\ params.time_max = PlusDays(params.time_min, 6)

\* what the code does: 'today' is tested first and wins over every other
\* expression in the goal
C26_TodayIsFirstRule ==
    RegexExtracted /\ HasSubstring(goal, "today")
        => /\ params.has_range
           /\ params.time_min = now
           /\ params.time_max = PlusDays(now, 1)

\* how many times the query has the clause
ClauseCount(clause) ==
    Cardinality({i \in 1..Len(mail_params.query) :
                    mail_params.query[i] \in {clause, Appended(clause)}})

\* how many from: clauses the query has
FromCount ==
    Cardinality({i \in 1..Len(mail_params.query) : mail_params.query[i] = "from:"})

\* the clauses are separated by exactly one space, with no separator at
\* either end of the query
SingleSeparators ==
    LET q == mail_params.query
        clauses == {"in:inbox", "in:sent", "in:draft", "is:unread"}
    IN \A i \in 1..Len(q) :
          IF i > 1 /\ q[i - 1] = "from:" THEN IsEmailAddress(q[i])
          ELSE IF i = 1 THEN q[i] \in clauses \cup {"from:"}
          ELSE q[i] \in {Appended(c) : c \in clauses}

\* C30: for every goal, the query built has each filter clause
\* (from:<address>, in:inbox, in:sent, in:draft, is:unread) at most once,
\* the clauses separated by exactly one space with no separator at either
\* end.
C30_EachClauseAtMostOnce ==
    MailRegexExtracted
        => /\ FromCount <= 1
           /\ \A clause \in {"in:inbox", "in:sent", "in:draft", "is:unread"} :
                 ClauseCount(clause) <= 1
           /\ SingleSeparators

\* what the code does hold to: single separators, and every clause but
\* in:inbox at most once; in:inbox comes twice exactly when the goal has
\* 'inbox' and 'unread'
C30_OnlyInboxRepeated ==
    MailRegexExtracted
        => /\ FromCount <= 1
           /\ \A clause \in {"in:sent", "in:draft", "is:unread"} : ClauseCount(clause) <= 1
           /\ SingleSeparators
           /\ ClauseCount("in:inbox") =
                 (IF MailHas(mail_goal, "inbox")
                  THEN (IF MailHas(mail_goal, "unread") THEN 2 ELSE 1)
                  ELSE 0)

(***************************************************************************)
(* Bookkeeping of run_agent                                                *)
(***************************************************************************)
\* sequence a is sequence b, or b with entries appended
IsPrefix(a, b) == Len(a) <= Len(b) /\ SubSeq(b, 1, Len(a)) = a

\* the step taken is one loop iteration: the planner was asked once more
IsIteration == planner_calls' = planner_calls + 1

\* C23: across a run, history and results change only by appending, and
\* step never decreases and increases by exactly 1 per loop iteration,
\* iterations that skip an unregistered tool included.
C23_AppendOnlyAndStepByOne ==
    [][/\ IsPrefix(history, history')
       /\ IsPrefix(results, results')
       /\ step' >= step
       /\ IF IsIteration THEN step' = step + 1 ELSE step' = step]_vars

\* a second iteration that skipped its tool, after one that ran a tool
C23_Witness ==
    /\ last.kind = "skip"
    /\ step = 2
    /\ Len(results) = 1
    /\ Len(history) = 3

\* the iterations so far that skipped an unregistered tool: each left one
\* 'No tool named' line in the history
Skipped ==
    Cardinality({i \in 1..Len(history) : history[i][1] = "No tool named '"})

LastEntries(n) == SubSeq(memory_items, Len(memory_items) - n + 1, Len(memory_items))

\* C24: for any sequence of Memory.add calls and any limit >= 0,
\* build_context(limit) is built from at most limit entries, the most
\* recently added ones.
C24_BoundedWindow ==
    memory_op = "build_context"
        => \E n \in 0..Min(context_limit, Len(memory_items)) :
              context = Join("\n", LastEntries(n))

\* what the code does hold to: for a limit >= 1 the context is the last
\* min(limit, len) entries, and for limit 0 it is every entry
C24_WindowUnlessZero ==
    memory_op = "build_context"
        => context = Join("\n", LastEntries(IF context_limit = 0 THEN Len(memory_items)
                                            ELSE Min(context_limit, Len(memory_items))))

\* three entries, limit 2: the context is the last two
C24_WindowOfTwo ==
    /\ memory_op = "build_context"
    /\ Len(memory_items) = 3
    /\ context_limit = 2
    /\ context = memory_items[2] \o <<"\n">> \o memory_items[3]

(***************************************************************************)
(* Properties of GoogleAgentToolkit.execute                                *)
(***************************************************************************)
\* execute has been called
Executed == exec_result.outcome # "not called"

\* the text is one of the tokens of an optional text that is not None
Carries(error, text) ==
    ~error.null /\ \E i \in 1..Len(error.text) : error.text[i] = text

\* C21: execute never raises; for an unregistered name it returns a
\* failure result with a 'not found' error without invoking anything; when
\* the tool's run raises it returns a failure result whose error carries
\* the exception text; the tool's run is invoked at most once.
C21_ExecuteNeverRaises ==
    Executed
        => /\ exec_result.outcome = "returned"
           /\ exec_result.runs <= 1
           /\ exec_call.tool_name \notin ToolkitTools
                 => /\ ~exec_result.ok
                    /\ Carries(exec_result.error, "' not found")
                    /\ exec_result.runs = 0
           /\ exec_call.tool_name \in ToolkitTools /\ exec_call.behaviour.kind = "raises"
                 => /\ ~exec_result.ok
                    /\ Carries(exec_result.error, exec_call.behaviour.text)
                    /\ exec_result.runs = 1

\* send_email raises RuntimeError('boom'): a failure result carrying 'boom'
C21_Witness ==
    /\ Executed
    /\ exec_call.tool_name = "send_email"
    /\ exec_call.behaviour.kind = "raises"
    /\ exec_call.behaviour.text = "boom"
    /\ ~exec_result.ok
    /\ exec_result.error = Str(<<"Failed to execute ", "send_email", ": ", "boom">>)
    /\ exec_result.runs = 1

\* read_file is not a tool of the toolkit: not found, nothing invoked
C21_WitnessNotFound ==
    /\ Executed
    /\ exec_call.tool_name = "read_file"
    /\ ~exec_result.ok
    /\ exec_result.error = Str(<<"Tool '", "read_file", "' not found">>)
    /\ exec_result.runs = 0

(***************************************************************************)
(* Failure results                                                         *)
(***************************************************************************)
\* the tool of the call is not registered, or its run raises
CouldNotRunOrRaised ==
    \/ exec_call.tool_name \notin ToolkitTools
    \/ exec_call.behaviour.kind = "raises"

\* C25: every result recorded by run_agent for a tool that raised is
\* marked as a failure (it has a success flag, and the flag is false) and
\* carries a non-empty error message.
C25_CapturedFailureIsMarked ==
    last.kind = "raise" /\ results # <<>>
        => /\ "ok" \in CaughtKeys
           /\ LastResult.error # ""

\* the same for GoogleAgentToolkit.execute, which does hold to it: ok is
\* False and the error text is not empty
C25_ToolkitFailureIsMarked ==
    Executed /\ CouldNotRunOrRaised
        => /\ exec_result.outcome = "returned"
           /\ ~exec_result.ok
           /\ ~exec_result.error.null
           /\ \E i \in 1..Len(exec_result.error.text) : exec_result.error.text[i] # ""

\* what run_agent records instead: {"error": str(exc)}, whatever the text
C25_CapturedIsErrorOnly ==
    last.kind = "raise" /\ results # <<>>
        => /\ CaughtKeys = {"error"}
           /\ LastResult = CaughtResult(last.text)

(***************************************************************************)
(* Planning failures                                                       *)
(***************************************************************************)
\* the response is not parseable as JSON, is no JSON object, or is an
\* object without one of the keys name, args, reason
Malformed(r) ==
    \/ r.shape \in {"not json", "number", "list", "string", "words"}
    \/ r.shape = "object" /\ (r.name = None \/ ~r.has_args \/ r.reason = None)

\* an iteration has asked the planner, and its response was malformed
PlanningFailed == planner_calls > 0 /\ Malformed(planner_response)

\* C22: when the planner's response is malformed, planning yields a 'noop'
\* proposal with a reason instead of raising, and the planning failure does
\* not by itself end the run: the iteration neither leaves run_agent with
\* an exception nor sets the done flag.
C22_MalformedIsNoopAndLoopContinues ==
    PlanningFailed
        => /\ ExecutePlan(planner_response) =
                  Proposal("dict", "noop", ExecutePlan(planner_response).reason)
           /\ ExecutePlan(planner_response).reason # None
           /\ pc # "raised"
           /\ ~done

\* what does hold, 1: a response that json.loads rejects, or that is a
\* number, an empty list or a plain string, is answered by a noop proposal
\* whose reason tells what failed
C22_UnparseableIsNoop ==
    planner_calls > 0 /\ planner_response.shape \in {"not json", "number", "list", "string"}
        => /\ ExecutePlan(planner_response).name = "noop"
           /\ ExecutePlan(planner_response).reason = FailureReason(planner_response.shape)
           /\ last.name = "noop"
           /\ pc # "raised"

\* what does hold, 2: the noop proposal runs NoopTool, whose result carries
\* "done": the iteration that follows a malformed response is the last one
C22_NoopEndsTheRun ==
    planner_calls > 0 /\ last.kind = "run" /\ last.name = "noop" => done

\* the first iteration got text that is not JSON, and the run is over after
\* that one step although max_steps allows three
C22_EndedByFirstFailure ==
    /\ planner_response.shape = "not json"
    /\ step = 1
    /\ max_steps = Limit(3)
    /\ done
    /\ pc = "returned"

(***************************************************************************)
(* Tasks of the Google agent                                               *)
(***************************************************************************)
\* the parameters of tool i come from the query parser and cannot be
\* passed to toolkit.execute
BadParamsAt(i) ==
    /\ task_parser.kind # "none"
    /\ tools_needed.tools[i] \in {"query_gmail", "query_events"}
    /\ task_call.llm[i] = "other"

\* the selected tools outnumber max_steps
Outnumbered == Len(tools_needed.tools) > task_call.max_steps

\* the positions at which the loop raises: the limit is reached with a tool
\* left, or the tool's parameters cannot be passed
Faults ==
    {i \in 1..Len(tools_needed.tools) : i > task_call.max_steps \/ BadParamsAt(i)}

FirstFault == CHOOSE i \in Faults : \A j \in Faults : i <= j

\* the record the call appended
Appended1 == task_history[Len(task_history)]

\* the call of this step returns
Returns == ~task_return.called /\ task_return'.called

C28_WitnessToolFailures ==
    /\ task_return.called
    /\ task_return.steps_executed = 2
    /\ \A i \in 1..2 : ~Appended1.steps[i].ok
    /\ task_call.behaviours[2].kind = "raises"
    /\ task_return.ok

\* the last step of the record that reported ok, None if no step did
RECURSIVE LastOk(_)
LastOk(steps) ==
    IF steps = <<>> THEN NoResult
    ELSE IF steps[Len(steps)].ok THEN steps[Len(steps)]
    ELSE LastOk(SubSeq(steps, 1, Len(steps) - 1))

\* C29: the 'result' returned is the result of the last step that reported
\* ok (None if no step did), and it equals the 'result' stored in the
\* task_history record that the returned task_id identifies, also when the
\* call ends with the max-steps error.
C29_ReturnedIsRecorded ==
    task_return.called
        => /\ task_return.result = LastOk(task_history[task_return.task_id + 1].steps)
           /\ task_return.result = task_history[task_return.task_id + 1].result

\* what does hold, 1: the returned result is the last ok step's, and
\* task_id identifies the record just appended
C29_ReturnedIsLastOk ==
    task_return.called
        => /\ task_return.task_id + 1 = Len(task_history)
           /\ task_return.result = LastOk(Appended1.steps)

\* what does hold, 2: the record stores the returned result when the loop
\* ended without an exception, and None when it did not
C29_RecordedUnlessRaised ==
    task_return.called
        => Appended1.result = IF task_return.ok THEN task_return.result ELSE NoResult

\* 'email meeting' with max_steps = 1: query_gmail reports ok, the limit
\* stops query_events; the caller gets query_gmail's result, the record None
C29_ResultLostInRecord ==
    /\ task_return.called
    /\ task_goal = <<"email", "meeting">>
    /\ task_call.max_steps = 1
    /\ task_return.result.tool = "query_gmail"
    /\ task_return.result.ok
    /\ Appended1.result = NoResult

====
